---- MODULE Spec2Model ----
(***************************************************************************)
(* Model of linera-sdk/src/service/runtime.rs: ServiceRuntime, the runtime *)
(* available to a service during the execution of a query.                 *)
(*                                                                         *)
(* The facade keeps one Mutex<Option<T>> per cacheable fact and fills it   *)
(* through fetch_value_through_cache; every other method is a direct call  *)
(* of a host primitive (base_wit / service_wit).  The host itself is not   *)
(* part of the file: it is modelled as a versioned chain state that may    *)
(* change between two primitive calls, an operation queue, a query         *)
(* dispatcher and a blob store.                                            *)
(***************************************************************************)
EXTENDS Integers, Sequences, FiniteSets, TLC

(***************************************************************************)
(* Bounds of the model.                                                    *)
(***************************************************************************)
\* steps of one run: the facade calls that are not answered from a cache
\* (constructions, cache misses, re-entries, calls of the methods that are not
\* cached) and the changes of the host's chain state
MaxSteps == 3

(***************************************************************************)
(* Option<T>                                                               *)
(***************************************************************************)
None == <<>>
Some(v) == <<v>>
IsNone(o) == o = None
Unwrap(o) == o[1]

(***************************************************************************)
(* Byte strings.  Text (JSON) bytes are written as characters, binary      *)
(* (BCS) bytes as numbers 0..255.                                          *)
(***************************************************************************)
DigitChars == <<"0", "1", "2", "3", "4", "5", "6", "7", "8", "9">>
IsDigit(c) == \E i \in 1..10 : DigitChars[i] = c
DigitVal(c) == (CHOOSE i \in 1..10 : DigitChars[i] = c) - 1
IsSpace(c) == c = " "

RECURSIVE DecimalChars(_)
\* itoa: the decimal digits of a natural number, most significant first
DecimalChars(n) ==
    IF n < 10 THEN <<DigitChars[n + 1]>>
    ELSE Append(DecimalChars(n \div 10), DigitChars[(n % 10) + 1])

RECURSIVE DecimalValue(_)
\* the number a non-empty digit string denotes
DecimalValue(s) ==
    IF Len(s) = 1 THEN DigitVal(s[1])
    ELSE 10 * DecimalValue(SubSeq(s, 1, Len(s) - 1)) + DigitVal(s[Len(s)])

RECURSIVE SkipSpaceLeft(_)
SkipSpaceLeft(s) ==
    IF s # <<>> /\ IsSpace(s[1]) THEN SkipSpaceLeft(Tail(s)) ELSE s

RECURSIVE SkipSpaceRight(_)
SkipSpaceRight(s) ==
    IF s # <<>> /\ IsSpace(s[Len(s)])
    THEN SkipSpaceRight(SubSeq(s, 1, Len(s) - 1)) ELSE s

Ok(v) == [ok |-> TRUE, value |-> v]
Err(e) == [ok |-> FALSE, error |-> e]

(***************************************************************************)
(* serde_json, for the value shapes the model uses:                        *)
(*   [t |-> "bool", v |-> BOOLEAN]   [t |-> "u8", v |-> 0..255]            *)
(*   [t |-> "unit"]                  [t |-> "tuple_key_map"]               *)
(* A map whose keys are tuples has no JSON form: to_vec fails on it.       *)
(***************************************************************************)
serde_json_to_vec(val) ==
    CASE val.t = "bool" ->
            Ok(IF val.v THEN <<"t", "r", "u", "e">> ELSE <<"f", "a", "l", "s", "e">>)
      [] val.t = "u8" -> Ok(DecimalChars(val.v))
      [] val.t = "unit" -> Ok(<<"n", "u", "l", "l">>)
      [] OTHER -> Err("key must be a string")

\* from_slice: whitespace around the value is skipped, anything else after the
\* value is an error; a number has no leading zero and must fit the type.
serde_json_from_slice(ty, bytes) ==
    LET s == SkipSpaceRight(SkipSpaceLeft(bytes)) IN
    CASE ty = "bool" ->
            IF s = <<"t", "r", "u", "e">> THEN Ok([t |-> "bool", v |-> TRUE])
            ELSE IF s = <<"f", "a", "l", "s", "e">> THEN Ok([t |-> "bool", v |-> FALSE])
            ELSE Err("expected a boolean")
      [] ty = "u8" ->
            IF s = <<>> THEN Err("EOF while parsing a value")
            ELSE IF \E i \in 1..Len(s) : ~IsDigit(s[i]) THEN Err("expected a number")
            ELSE IF Len(s) > 1 /\ s[1] = "0" THEN Err("invalid number")
            ELSE IF Len(s) > 3 \/ DecimalValue(s) > 255 THEN Err("invalid value")
            ELSE Ok([t |-> "u8", v |-> DecimalValue(s)])
      [] ty = "unit" ->
            IF s = <<"n", "u", "l", "l">> THEN Ok([t |-> "unit"])
            ELSE Err("expected null")
      [] OTHER -> Err("unsupported type")

(***************************************************************************)
(* BCS, for the value shapes the model uses:                               *)
(*   [t |-> "u8", v]  [t |-> "u16", v]  [t |-> "bool", v]                  *)
(*   [t |-> "bytes", v |-> Seq(0..255)]   (Vec<u8>: ULEB128 length, bytes) *)
(*   [t |-> "enum", idx, v]   (variant index as ULEB128, then a u8 field)  *)
(*   [t |-> "f32"]            (not supported by BCS: to_bytes fails)       *)
(***************************************************************************)
RECURSIVE Uleb128(_)
Uleb128(n) ==
    IF n < 128 THEN <<n>> ELSE <<128 + (n % 128)>> \o Uleb128(n \div 128)

\* Reads one ULEB128 number from the front of bytes: [ok, value, rest].
RECURSIVE ReadUleb128(_)
ReadUleb128(bytes) ==
    IF bytes = <<>> THEN [ok |-> FALSE, value |-> 0, rest |-> <<>>]
    ELSE IF bytes[1] < 128 THEN [ok |-> TRUE, value |-> bytes[1], rest |-> Tail(bytes)]
    ELSE LET more == ReadUleb128(Tail(bytes)) IN
         \* a final zero group is a non-canonical encoding
         [ok |-> more.ok /\ more.value # 0,
          value |-> (bytes[1] - 128) + 128 * more.value,
          rest |-> more.rest]

bcs_to_bytes(op) ==
    CASE op.t = "u8" -> Ok(<<op.v>>)
      [] op.t = "u16" -> Ok(<<op.v % 256, op.v \div 256>>)
      [] op.t = "bool" -> Ok(<<IF op.v THEN 1 ELSE 0>>)
      [] op.t = "bytes" -> Ok(Uleb128(Len(op.v)) \o op.v)
      [] op.t = "enum" -> Ok(Uleb128(op.idx) \o <<op.v>>)
      [] OTHER -> Err("not supported")

bcs_from_bytes(ty, bytes) ==
    CASE ty = "u8" ->
            IF Len(bytes) = 1 THEN Ok([t |-> "u8", v |-> bytes[1]]) ELSE Err("length")
      [] ty = "u16" ->
            IF Len(bytes) = 2 THEN Ok([t |-> "u16", v |-> bytes[1] + 256 * bytes[2]])
            ELSE Err("length")
      [] ty = "bool" ->
            IF Len(bytes) = 1 /\ bytes[1] \in {0, 1}
            THEN Ok([t |-> "bool", v |-> bytes[1] = 1]) ELSE Err("expected a boolean")
      [] ty = "bytes" ->
            LET n == ReadUleb128(bytes) IN
            IF n.ok /\ Len(n.rest) = n.value THEN Ok([t |-> "bytes", v |-> n.rest])
            ELSE Err("length")
      [] ty = "enum" ->
            LET n == ReadUleb128(bytes) IN
            IF n.ok /\ Len(n.rest) = 1
            THEN Ok([t |-> "enum", idx |-> n.value, v |-> n.rest[1]])
            ELSE Err("length")
      [] OTHER -> Err("not supported")

(***************************************************************************)
(* Facade instances, cache slots (the fields of ServiceRuntime), methods   *)
(* and host primitives.                                                    *)
(***************************************************************************)
Facades == {"f1", "f2"}

Slots == {"application_parameters", "application_id", "chain_id",
          "next_block_height", "timestamp", "chain_balance",
          "owner_balances", "balance_owners"}

PassThrough == {"owner_balance", "http_request", "read_data_blob",
                "assert_data_blob_exists", "schedule_raw_operation",
                "schedule_operation", "query_application"}

Primitives == {"application_parameters", "get_application_id", "get_chain_id",
               "get_block_height", "read_system_timestamp", "read_chain_balance",
               "read_owner_balance", "read_owner_balances", "read_balance_owners",
               "perform_http_request", "read_data_blob", "assert_data_blob_exists",
               "schedule_operation", "try_query_application"}

\* Application::Parameters and Application::Abi of the service that owns the facade
ParametersType == "u8"
ApplicationAbi == "OwnAbi"

(***************************************************************************)
(* Inputs the application may pass.                                        *)
(***************************************************************************)
Owners == {"o1", "o2"}
Requests == {"GET /price"}
BlobHashes == {"h1", "h2"}
RawOperations == {<<7, 7>>}
\* the values given to schedule_operation (the last one has no BCS form)
Operations == <<[t |-> "u16", v |-> 300], [t |-> "bytes", v |-> <<1, 2>>],
               [t |-> "f32"]>>

\* a wider choice of operation values: the ends of each integer range, empty and
\* long byte strings (two-byte ULEB128 length), enum variants below and above 127
RoundTripOperations ==
    <<[t |-> "u8", v |-> 0], [t |-> "u8", v |-> 255],
      [t |-> "u16", v |-> 0], [t |-> "u16", v |-> 255], [t |-> "u16", v |-> 256],
      [t |-> "u16", v |-> 65535],
      [t |-> "bool", v |-> FALSE], [t |-> "bool", v |-> TRUE],
      [t |-> "bytes", v |-> <<>>], [t |-> "bytes", v |-> <<0, 255>>],
      [t |-> "bytes", v |-> [i \in 1..130 |-> i]],
      [t |-> "enum", idx |-> 0, v |-> 9], [t |-> "enum", idx |-> 200, v |-> 9],
      [t |-> "f32"]>>

\* A::Query values and A::QueryResponse type of the two target interfaces
AbiQueries(abi) ==
    IF abi = "CounterAbi" THEN <<[t |-> "bool", v |-> TRUE], [t |-> "tuple_key_map"]>>
    ELSE <<[t |-> "u8", v |-> 5]>>
AbiQueryResponse(abi) == IF abi = "CounterAbi" THEN "u8" ELSE "bool"
Applications == {[application_description_hash |-> 21, abi |-> "CounterAbi"],
                 [application_description_hash |-> 22, abi |-> "FlagAbi"]}

\* what another application may answer
ResponseBytes == {<<" ", "1", "2">>, <<"t", "r", "u", "e">>, <<"7", "x">>}

(***************************************************************************)
(* Conversions between the wit types of the host interface and the types   *)
(* of linera_base (the From/Into impls used by the facade).                *)
(***************************************************************************)
IntoWit(v) == [inner0 |-> v]
FromWit(w) == w.inner0

\* ApplicationId::from(wit).with_abi(): the tag is attached to the raw identifier
with_abi(id, abi) == [application_description_hash |-> id.application_description_hash,
                      abi |-> abi]
\* ApplicationId::forget_abi
forget_abi_Tagged(id) == id
forget_abi(id) == [application_description_hash |-> id.application_description_hash]

MapSeq(Op(_), s) == [i \in 1..Len(s) |-> Op(s[i])]
PairFromWit(p) == <<FromWit(p[1]), FromWit(p[2])>>

(***************************************************************************)
(* The host.  Its chain state is a function of a version number that a     *)
(* mutation advances; the second state holds parameters that do not parse. *)
(***************************************************************************)
HostLedger(ver) ==
    CASE ver % 3 = 0 -> <<<<"o1", 5>>, <<"o2", 3>>>>
      [] ver % 3 = 1 -> <<<<"o2", 4>>>>
      [] OTHER -> <<<<"o2", 4>>, <<"o1", 6>>>>

HostParameters(ver) ==
    CASE ver % 3 = 0 -> <<"4", "2">>
      [] ver % 3 = 1 -> <<"4", "x">>
      [] OTHER -> <<"7">>

StoredBlobs == {"h1"}
BlobContent(hash) == <<1, 2, 3>>

base_wit_application_parameters(ver) == HostParameters(ver)
base_wit_get_application_id(ver) == [application_description_hash |-> 10 + ver]
base_wit_get_chain_id(ver) == IntoWit(100 + ver)
base_wit_get_block_height(ver) == IntoWit(ver + 1)
base_wit_read_system_timestamp(ver) == IntoWit(1000 + ver)
base_wit_read_chain_balance(ver) == IntoWit(50 - ver)
base_wit_read_owner_balances(ver) ==
    MapSeq(LAMBDA p : <<IntoWit(p[1]), IntoWit(p[2])>>, HostLedger(ver))
base_wit_read_balance_owners(ver) ==
    MapSeq(LAMBDA p : IntoWit(p[1]), HostLedger(ver))
base_wit_read_owner_balance(ver, owner) ==
    LET l == HostLedger(ver) IN
    IF \E i \in 1..Len(l) : l[i][1] = FromWit(owner)
    THEN IntoWit(l[CHOOSE i \in 1..Len(l) : l[i][1] = FromWit(owner)][2])
    ELSE IntoWit(0)
base_wit_perform_http_request(ver, request) ==
    IntoWit([status |-> 200, body |-> <<FromWit(request), ver>>])

VARIABLES
    constructed,   \* the facade instances that exist
    cells,         \* cells[f][slot] = [value: Option<T>, locked: guard held]
    stack,         \* facade calls suspended in a host primitive, innermost last
    status,        \* "running", "aborted" (fatal condition) or "blocked" (hangs)
    fatal,         \* the message of the fatal condition, "" when there is none
    hostVersion,   \* version of the host's chain state
    opQueue,       \* the host's operation queue
    dispatched,    \* the queries handed to the host, in order
    invocations,   \* invocations[f][p]: calls of primitive p issued by facade f
    nSteps,        \* steps taken so far (see MaxSteps)
    calls,         \* calls[f][m]: calls of the pass-through method m on f
    firstRet,      \* firstRet[f][slot]: what the first completed call returned,
                   \* and the host version it was fetched at
    last,          \* the most recent step: the method, and how the step left it
    schedLog       \* the scheduling calls made, in order

vars == <<constructed, cells, stack, status, fatal, hostVersion, opQueue, dispatched,
          invocations, nSteps, calls, firstRet, last, schedLog>>

\* last.outcome: "returned" (value is what the caller got; cached: answered from
\* a slot), "suspended" (the call waits in a host primitive), "aborted", "blocked".
\* The argument and the value are kept with the name of their kind, so that
\* the records of calls of different methods can be told apart.
Arg(kind, a) == <<kind, a>>
\* a value of a serializable type, kept with the name of its type
Typed(val) == <<val.t, val>>
Untyped(tv) == tv[2]
\* an entry of the log of scheduling calls
Scheduled(kind, a) == <<kind, a>>
KindOf(entry) == entry[1]
PayloadOf(entry) == entry[2]
ArgOf(call) == call.arg[2]
ValueOf(call) == call.value[2]
NoCall == [facade |-> "", method |-> "", arg |-> None, outcome |-> "", value |-> None,
           under |-> "", cached |-> FALSE]
Ret(f, m, arg, v, under) ==
    [facade |-> f, method |-> m, arg |-> arg, outcome |-> "returned",
     value |-> <<m, v>>,
     under |-> under, cached |-> FALSE]
CachedRet(f, m, v, under) ==
    [facade |-> f, method |-> m, arg |-> None, outcome |-> "returned",
     value |-> <<m, v>>,
     under |-> under, cached |-> TRUE]
NoRet(f, m, arg, outcome, under) ==
    [facade |-> f, method |-> m, arg |-> arg, outcome |-> outcome, value |-> None,
     under |-> under, cached |-> FALSE]
First(v, ver) == Some([value |-> v, version |-> ver])

\* ServiceRuntime::new: every slot is Mutex::new(None)
NewRuntime == [s \in Slots |-> [value |-> None, locked |-> FALSE]]

Init ==
    /\ constructed = {"f1"}
    /\ cells = [f \in Facades |-> NewRuntime]
    /\ stack = <<>>
    /\ status = "running"
    /\ fatal = ""
    /\ hostVersion = 0
    /\ opQueue = <<>>
    /\ dispatched = <<>>
    /\ invocations = [f \in Facades |-> [p \in Primitives |-> 0]]
    /\ nSteps = 0
    /\ calls = [f \in Facades |-> [m \in PassThrough |-> 0]]
    /\ firstRet = [f \in Facades |-> [s \in Slots |-> None]]
    /\ last = NoCall
    /\ schedLog = <<>>

(***************************************************************************)
(* Helpers of the actions.                                                 *)
(***************************************************************************)
Running == status = "running"
\* the method whose host call the caller runs under ("" for the query's own code)
Under == IF stack = <<>> THEN "" ELSE stack[Len(stack)].method
\* the same for the call on top of the stack
UnderTop == IF Len(stack) <= 1 THEN "" ELSE stack[Len(stack) - 1].method
Inc(f, p) == [invocations EXCEPT ![f][p] = @ + 1]
Called(f, m) == [calls EXCEPT ![f][m] = @ + 1]
Frame(f, m, slot, resp) == [facade |-> f, method |-> m, slot |-> slot, resp |-> resp]
\* a step of the facade that counts against MaxSteps
Step(f) == Running /\ f \in constructed /\ nSteps < MaxSteps /\ nSteps' = nSteps + 1

\* A panic (an expect that fails, a failed assertion) or the host ending the
\* execution: nothing runs afterwards.
\* the failure is noted and the execution goes on
Abort_Recover(msg) == status' = "running" /\ fatal' = msg
Abort(msg) == status' = "aborted" /\ fatal' = msg

\* Mutex::lock on a mutex the same thread already holds is left unspecified by
\* std: it never returns, it panics or it deadlocks.
RelockOutcomes == {"aborted", "blocked"}

(***************************************************************************)
(* fetch_value_through_cache, up to the call of fetch.                     *)
(***************************************************************************)
\* value.is_none()
SlotIsEmpty_Always(cell) == TRUE
SlotIsEmpty(cell) == IsNone(cell.value)
\* *value = Some(fetch())
StoreFetched(cell, v) == [cell EXCEPT !.value = Some(v)]
\* value.clone(), before the expect("Value should be populated above")
CloneValue(cell) == cell.value
\* slot.lock() and the drop of the guard at the end of the function
LockSlot(cell) == [cell EXCEPT !.locked = TRUE]
DropGuard_Clear(cell) == [value |-> None, locked |-> FALSE]
DropGuard_Leak(cell) == cell
DropGuard(cell) == [cell EXCEPT !.locked = FALSE]

fetch_value_through_cache(f, slot, prim) ==
    /\ Running
    /\ f \in constructed
    /\ LET cell == cells[f][slot] IN
       IF cell.locked
       THEN \* re-entered from the fetch of the same slot
            /\ \E outcome \in RelockOutcomes :
                  /\ status' = outcome
                  /\ fatal' = IF outcome = "aborted"
                              THEN "cannot recursively acquire mutex" ELSE fatal
                  /\ last' = NoRet(f, slot, None, outcome, Under)
            /\ UNCHANGED <<constructed, cells, stack, hostVersion, opQueue, dispatched,
                           invocations, nSteps, calls, firstRet, schedLog>>
       ELSE IF SlotIsEmpty(LockSlot(cell))
       THEN \* fetch() starts: the host primitive is invoked with the guard held
            /\ Step(f)
            /\ cells' = [cells EXCEPT ![f][slot] = LockSlot(cell)]
            /\ invocations' = Inc(f, prim)
            /\ stack' = Append(stack, Frame(f, slot, slot, ""))
            /\ last' = NoRet(f, slot, None, "suspended", Under)
            /\ UNCHANGED <<constructed, status, fatal, hostVersion, opQueue, dispatched,
                           calls, firstRet, schedLog>>
       ELSE \* the slot holds a value: it is cloned and the guard dropped
            /\ last' = CachedRet(f, slot, Unwrap(CloneValue(LockSlot(cell))), Under)
            /\ cells' = [cells EXCEPT ![f][slot] = DropGuard(LockSlot(cell))]
            /\ firstRet' = IF IsNone(firstRet[f][slot])
                           THEN [firstRet EXCEPT ![f][slot] =
                                    First(Unwrap(CloneValue(LockSlot(cell))), hostVersion)]
                           ELSE firstRet
            /\ UNCHANGED <<constructed, stack, status, fatal, hostVersion, opQueue,
                           dispatched, invocations, nSteps, calls, schedLog>>

\* The fetch closures of the cacheable methods: host primitive, then transform.
\* a closure that falls back to the default parameters when the bytes do not
\* decode
application_parameters_fetch_OrDefault(ver) ==
    LET r == serde_json_from_slice(ParametersType, base_wit_application_parameters(ver)) IN
    IF r.ok THEN r ELSE Ok([t |-> ParametersType, v |-> 0])
application_parameters_fetch(ver) ==
    LET r == serde_json_from_slice(ParametersType, base_wit_application_parameters(ver)) IN
    IF r.ok THEN r ELSE Err("Application parameters must be deserializable")
application_id_fetch(ver) == Ok(with_abi(base_wit_get_application_id(ver), ApplicationAbi))
chain_id_fetch(ver) == Ok(FromWit(base_wit_get_chain_id(ver)))
next_block_height_fetch(ver) == Ok(FromWit(base_wit_get_block_height(ver)))
system_time_fetch(ver) == Ok(FromWit(base_wit_read_system_timestamp(ver)))
chain_balance_fetch(ver) == Ok(FromWit(base_wit_read_chain_balance(ver)))
owner_balances_fetch(ver) == Ok(MapSeq(PairFromWit, base_wit_read_owner_balances(ver)))
balance_owners_fetch_Reordered(ver) ==
    LET l == base_wit_read_balance_owners(ver) IN
    Ok([i \in 1..Len(l) |-> FromWit(l[Len(l) + 1 - i])])
balance_owners_fetch(ver) == Ok(MapSeq(FromWit, base_wit_read_balance_owners(ver)))

\* the closure that was handed to fetch_value_through_cache for a slot
Fetch(slot, ver) ==
    CASE slot = "application_parameters" -> application_parameters_fetch(ver)
      [] slot = "application_id" -> application_id_fetch(ver)
      [] slot = "chain_id" -> chain_id_fetch(ver)
      [] slot = "next_block_height" -> next_block_height_fetch(ver)
      [] slot = "timestamp" -> system_time_fetch(ver)
      [] slot = "chain_balance" -> chain_balance_fetch(ver)
      [] slot = "owner_balances" -> owner_balances_fetch(ver)
      [] slot = "balance_owners" -> balance_owners_fetch(ver)

(***************************************************************************)
(* The cacheable methods.  In stack and last a call is named by its slot   *)
(* (system_time uses the slot "timestamp").                                *)
(***************************************************************************)
application_parameters(f) ==
    fetch_value_through_cache(f, "application_parameters", "application_parameters")
application_id(f) ==
    fetch_value_through_cache(f, "application_id", "get_application_id")
chain_id(f) ==
    fetch_value_through_cache(f, "chain_id", "get_chain_id")
next_block_height(f) ==
    fetch_value_through_cache(f, "next_block_height", "get_block_height")
system_time(f) ==
    fetch_value_through_cache(f, "timestamp", "read_system_timestamp")
chain_balance(f) ==
    fetch_value_through_cache(f, "chain_balance", "read_chain_balance")
owner_balances(f) ==
    fetch_value_through_cache(f, "owner_balances", "read_owner_balances")
balance_owners(f) ==
    fetch_value_through_cache(f, "balance_owners", "read_balance_owners")

(***************************************************************************)
(* fetch_value_through_cache, from the return of the host primitive: the   *)
(* closure finishes, its result is stored and cloned, the guard dropped.   *)
(***************************************************************************)
fetch_return ==
    /\ Running
    /\ stack # <<>>
    /\ LET fr == stack[Len(stack)]
           f == fr.facade
           slot == fr.slot
           fetched == Fetch(slot, hostVersion)
       IN
       /\ slot \in Slots
       /\ IF ~fetched.ok
          THEN \* the closure panics: nothing is stored
               /\ Abort(fetched.error)
               /\ last' = NoRet(f, slot, None, "aborted", UnderTop)
               /\ UNCHANGED <<cells, stack, firstRet>>
          ELSE LET stored == StoreFetched(cells[f][slot], fetched.value) IN
               IF IsNone(CloneValue(stored))
               THEN /\ Abort("Value should be populated above")
                    /\ last' = NoRet(f, slot, None, "aborted", UnderTop)
                    /\ cells' = [cells EXCEPT ![f][slot] = stored]
                    /\ UNCHANGED <<stack, firstRet>>
               ELSE /\ cells' = [cells EXCEPT ![f][slot] = DropGuard(stored)]
                    /\ stack' = SubSeq(stack, 1, Len(stack) - 1)
                    /\ last' = Ret(f, slot, None, Unwrap(CloneValue(stored)), UnderTop)
                    /\ firstRet' = IF IsNone(firstRet[f][slot])
                                   THEN [firstRet EXCEPT ![f][slot] =
                                            First(Unwrap(CloneValue(stored)), hostVersion)]
                                   ELSE firstRet
                    /\ UNCHANGED <<status, fatal>>
    /\ UNCHANGED <<constructed, hostVersion, opQueue, dispatched, invocations, nSteps,
                   calls, schedLog>>

(***************************************************************************)
(* The methods that are not cached: each is one call of a host primitive.  *)
(***************************************************************************)
owner_balance_memoized(f, owner) ==
    /\ Step(f)
    /\ calls' = Called(f, "owner_balance")
    /\ LET all == cells[f]["owner_balances"].value
           known == IF IsNone(all) THEN {}
                    ELSE {i \in 1..Len(Unwrap(all)) : Unwrap(all)[i][1] = owner}
       IN
       IF known # {}
       THEN /\ last' = Ret(f, "owner_balance", Arg("owner", owner),
                           Unwrap(all)[CHOOSE i \in known : TRUE][2], Under)
            /\ UNCHANGED invocations
       ELSE /\ invocations' = Inc(f, "read_owner_balance")
            /\ last' = Ret(f, "owner_balance", Arg("owner", owner),
                           FromWit(base_wit_read_owner_balance(hostVersion, IntoWit(owner))),
                           Under)
    /\ UNCHANGED <<constructed, cells, stack, status, fatal, hostVersion, opQueue,
                   dispatched, firstRet, schedLog>>

owner_balance(f, owner) ==
    /\ Step(f)
    /\ invocations' = Inc(f, "read_owner_balance")
    /\ calls' = Called(f, "owner_balance")
    /\ last' = Ret(f, "owner_balance", Arg("owner", owner),
                   FromWit(base_wit_read_owner_balance(hostVersion, IntoWit(owner))),
                   Under)
    /\ UNCHANGED <<constructed, cells, stack, status, fatal, hostVersion, opQueue,
                   dispatched, firstRet, schedLog>>

http_request_memoized(f, request) ==
    /\ Step(f)
    /\ calls' = Called(f, "http_request")
    /\ IF last.method = "http_request" /\ last.facade = f /\ last.outcome = "returned"
       THEN /\ last' = last
            /\ UNCHANGED invocations
       ELSE /\ invocations' = Inc(f, "perform_http_request")
            /\ last' = Ret(f, "http_request", Arg("request", request),
                           FromWit(base_wit_perform_http_request(hostVersion,
                                                                 IntoWit(request))),
                           Under)
    /\ UNCHANGED <<constructed, cells, stack, status, fatal, hostVersion, opQueue,
                   dispatched, firstRet, schedLog>>

http_request(f, request) ==
    /\ Step(f)
    /\ invocations' = Inc(f, "perform_http_request")
    /\ calls' = Called(f, "http_request")
    /\ last' = Ret(f, "http_request", Arg("request", request),
                   FromWit(base_wit_perform_http_request(hostVersion, IntoWit(request))),
                   Under)
    /\ UNCHANGED <<constructed, cells, stack, status, fatal, hostVersion, opQueue,
                   dispatched, firstRet, schedLog>>

\* The host ends the execution when the blob is not in storage.
read_data_blob(f, hash) ==
    /\ Step(f)
    /\ invocations' = Inc(f, "read_data_blob")
    /\ calls' = Called(f, "read_data_blob")
    /\ IF hash \in StoredBlobs
       THEN /\ last' = Ret(f, "read_data_blob", Arg("hash", hash), BlobContent(hash), Under)
            /\ UNCHANGED <<status, fatal>>
       ELSE /\ Abort("host: blob not found")
            /\ last' = NoRet(f, "read_data_blob", Arg("hash", hash), "aborted", Under)
    /\ UNCHANGED <<constructed, cells, stack, hostVersion, opQueue, dispatched,
                   firstRet, schedLog>>

\* the assertion taken for granted: the host is not asked
assert_data_blob_exists_Unchecked(f, hash) ==
    /\ Step(f)
    /\ calls' = Called(f, "assert_data_blob_exists")
    /\ last' = Ret(f, "assert_data_blob_exists", Arg("hash", hash), "()", Under)
    /\ UNCHANGED <<constructed, cells, stack, status, fatal, hostVersion, opQueue,
                   dispatched, invocations, firstRet, schedLog>>

assert_data_blob_exists(f, hash) ==
    /\ Step(f)
    /\ invocations' = Inc(f, "assert_data_blob_exists")
    /\ calls' = Called(f, "assert_data_blob_exists")
    /\ IF hash \in StoredBlobs
       THEN /\ last' = Ret(f, "assert_data_blob_exists", Arg("hash", hash), "()", Under)
            /\ UNCHANGED <<status, fatal>>
       ELSE /\ Abort("host: blob not found")
            /\ last' = NoRet(f, "assert_data_blob_exists", Arg("hash", hash), "aborted", Under)
    /\ UNCHANGED <<constructed, cells, stack, hostVersion, opQueue, dispatched,
                   firstRet, schedLog>>

(***************************************************************************)
(* Scheduling of operations.                                               *)
(***************************************************************************)
\* the host appends the bytes it is given to its operation queue
service_wit_schedule_operation(queue, bytes) == Append(queue, bytes)

\* &operation: the raw bytes are handed over as they are
RawBytes_Encoded(operation) == Uleb128(Len(operation)) \o operation
RawBytes(operation) == operation

schedule_raw_operation(f, operation) ==
    /\ Step(f)
    /\ invocations' = Inc(f, "schedule_operation")
    /\ calls' = Called(f, "schedule_raw_operation")
    /\ schedLog' = Append(schedLog, Scheduled("raw", operation))
    /\ opQueue' = service_wit_schedule_operation(opQueue, RawBytes(operation))
    /\ last' = Ret(f, "schedule_raw_operation", Arg("bytes", operation), "()", Under)
    /\ UNCHANGED <<constructed, cells, stack, status, fatal, hostVersion, dispatched,
                   firstRet>>

\* bcs::to_bytes(operation), before the expect
OperationBytes_Prefixed(operation) ==
    LET b == bcs_to_bytes(operation) IN
    IF b.ok THEN Ok(Uleb128(Len(b.value)) \o b.value) ELSE b
\* unwrap_or_default in place of expect: a failed encoding becomes no bytes
OperationBytes_OrDefault(operation) ==
    LET b == bcs_to_bytes(operation) IN IF b.ok THEN b ELSE Ok(<<>>)
OperationBytes(operation) == bcs_to_bytes(operation)

schedule_operation(f, operation) ==
    /\ Step(f)
    /\ calls' = Called(f, "schedule_operation")
    /\ schedLog' = Append(schedLog, Scheduled("typed", Typed(operation)))
    /\ LET bytes == OperationBytes(operation) IN
       IF ~bytes.ok
       THEN /\ Abort("Failed to serialize application operation")
            /\ last' = NoRet(f, "schedule_operation", Arg("operation", Typed(operation)),
                             "aborted", Under)
            /\ UNCHANGED <<opQueue, invocations>>
       ELSE /\ invocations' = Inc(f, "schedule_operation")
            /\ opQueue' = service_wit_schedule_operation(opQueue, bytes.value)
            /\ last' = Ret(f, "schedule_operation", Arg("operation", Typed(operation)),
                           "()", Under)
            /\ UNCHANGED <<status, fatal>>
    /\ UNCHANGED <<constructed, cells, stack, hostVersion, dispatched, firstRet>>

(***************************************************************************)
(* query_application: encode, dispatch, and on the host's return decode.   *)
(***************************************************************************)
\* serde_json::to_vec(&query), before the expect
QueryBytes(query) == serde_json_to_vec(query)
\* serde_json::from_slice(&response_bytes) at the target's declared response
\* type, before the expect
DecodeResponse_Lenient(ty, bytes) ==
    LET r == serde_json_from_slice(ty, bytes) IN
    IF r.ok THEN r
    ELSE Ok(IF ty = "bool" THEN [t |-> "bool", v |-> FALSE] ELSE [t |-> ty, v |-> 0])
DecodeResponse(ty, bytes) == serde_json_from_slice(ty, bytes)

query_application(f, application, query) ==
    /\ Step(f)
    /\ calls' = Called(f, "query_application")
    /\ LET query_bytes == QueryBytes(query) IN
       IF ~query_bytes.ok
       THEN /\ Abort("Failed to serialize query to another application")
            /\ last' = NoRet(f, "query_application",
                             Arg("query", <<application, Typed(query)>>),
                             "aborted", Under)
            /\ UNCHANGED <<stack, dispatched, invocations>>
       ELSE /\ invocations' = Inc(f, "try_query_application")
            /\ dispatched' = Append(dispatched, [application |-> forget_abi(application),
                                                 query |-> query_bytes.value])
            /\ stack' = Append(stack, Frame(f, "query_application", "",
                                            AbiQueryResponse(application.abi)))
            /\ last' = NoRet(f, "query_application",
                             Arg("query", <<application, Typed(query)>>),
                             "suspended", Under)
            /\ UNCHANGED <<status, fatal>>
    /\ UNCHANGED <<constructed, cells, hostVersion, opQueue, firstRet, schedLog>>

\* the answer is given to the outermost query while an inner one is in flight
query_application_return_Outer(response_bytes) ==
    /\ Running
    /\ Len(stack) >= 2
    /\ stack[1].method = "query_application"
    /\ LET response == DecodeResponse(stack[1].resp, response_bytes) IN
       /\ response.ok
       /\ stack' = Tail(stack)
       /\ last' = Ret(stack[1].facade, "query_application",
                                Arg("response_bytes", response_bytes),
                      Typed(response.value), "")
    /\ UNCHANGED <<constructed, cells, status, fatal, hostVersion, opQueue, dispatched,
                   invocations, nSteps, calls, firstRet, schedLog>>

\* the host hands back the bytes the target application answered
query_application_return(response_bytes) ==
    /\ Running
    /\ stack # <<>>
    /\ LET fr == stack[Len(stack)]
           response == DecodeResponse(fr.resp, response_bytes)
       IN
       /\ fr.method = "query_application"
       /\ IF ~response.ok
          THEN /\ Abort("Failed to deserialize query response from application")
               /\ last' = NoRet(fr.facade, "query_application",
                                Arg("response_bytes", response_bytes),
                                "aborted", UnderTop)
               /\ UNCHANGED stack
          ELSE /\ stack' = SubSeq(stack, 1, Len(stack) - 1)
               /\ last' = Ret(fr.facade, "query_application",
                                Arg("response_bytes", response_bytes),
                              Typed(response.value), UnderTop)
               /\ UNCHANGED <<status, fatal>>
    /\ UNCHANGED <<constructed, cells, hostVersion, opQueue, dispatched, invocations,
                   nSteps, calls, firstRet, schedLog>>

\* the host ends the execution instead of answering (the target failed)
query_application_abort ==
    /\ Running
    /\ stack # <<>>
    /\ stack[Len(stack)].method = "query_application"
    /\ Abort("host: query failed")
    /\ last' = NoRet(stack[Len(stack)].facade, "query_application", None, "aborted",
                     UnderTop)
    /\ UNCHANGED <<constructed, cells, stack, hostVersion, opQueue, dispatched,
                   invocations, nSteps, calls, firstRet, schedLog>>

(***************************************************************************)
(* Construction of a facade, and the host changing its chain state.        *)
(***************************************************************************)
\* a constructor that hands out the slots of the first instance
ServiceRuntime_new_Shared(f) ==
    /\ Running
    /\ f \notin constructed
    /\ nSteps < MaxSteps
    /\ nSteps' = nSteps + 1
    /\ constructed' = constructed \cup {f}
    /\ cells' = [cells EXCEPT ![f] = cells["f1"]]
    /\ last' = Ret(f, "new", None, "()", Under)
    /\ UNCHANGED <<stack, status, fatal, hostVersion, opQueue, dispatched, invocations,
                   calls, firstRet, schedLog>>

\* a constructor that reads the chain id from the host ahead of its first use
ServiceRuntime_new_Eager(f) ==
    /\ Running
    /\ f \notin constructed
    /\ nSteps < MaxSteps
    /\ nSteps' = nSteps + 1
    /\ constructed' = constructed \cup {f}
    /\ cells' = [cells EXCEPT ![f] =
                    [NewRuntime EXCEPT !["chain_id"] =
                        StoreFetched(@, FromWit(base_wit_get_chain_id(hostVersion)))]]
    /\ invocations' = Inc(f, "get_chain_id")
    /\ last' = Ret(f, "new", None, "()", Under)
    /\ UNCHANGED <<stack, status, fatal, hostVersion, opQueue, dispatched, calls,
                   firstRet, schedLog>>

ServiceRuntime_new(f) ==
    /\ Running
    /\ f \notin constructed
    /\ nSteps < MaxSteps
    /\ nSteps' = nSteps + 1
    /\ constructed' = constructed \cup {f}
    /\ cells' = [cells EXCEPT ![f] = NewRuntime]
    /\ last' = Ret(f, "new", None, "()", Under)
    /\ UNCHANGED <<stack, status, fatal, hostVersion, opQueue, dispatched, invocations,
                   calls, firstRet, schedLog>>

HostMutate ==
    /\ Running
    /\ nSteps < MaxSteps
    /\ nSteps' = nSteps + 1
    /\ hostVersion' = hostVersion + 1
    /\ last' = NoRet("", "host_mutate", None, "", Under)
    /\ UNCHANGED <<constructed, cells, stack, status, fatal, opQueue, dispatched,
                   invocations, calls, firstRet, schedLog>>

Next ==
    \/ \E f \in Facades : ServiceRuntime_new(f)
    \/ \E f \in Facades : application_parameters(f)
    \/ \E f \in Facades : application_id(f)
    \/ \E f \in Facades : chain_id(f)
    \/ \E f \in Facades : next_block_height(f)
    \/ \E f \in Facades : system_time(f)
    \/ \E f \in Facades : chain_balance(f)
    \/ \E f \in Facades : owner_balances(f)
    \/ \E f \in Facades : balance_owners(f)
    \/ fetch_return
    \/ \E f \in Facades, owner \in Owners : owner_balance(f, owner)
    \/ \E f \in Facades, request \in Requests : http_request(f, request)
    \/ \E f \in Facades, hash \in BlobHashes : read_data_blob(f, hash)
    \/ \E f \in Facades, hash \in BlobHashes : assert_data_blob_exists(f, hash)
    \/ \E f \in Facades, operation \in RawOperations : schedule_raw_operation(f, operation)
    \/ \E f \in Facades, i \in DOMAIN Operations : schedule_operation(f, Operations[i])
    \/ \E f \in Facades, application \in Applications :
          \E i \in DOMAIN AbiQueries(application.abi) :
             query_application(f, application, AbiQueries(application.abi)[i])
    \/ \E response_bytes \in ResponseBytes : query_application_return(response_bytes)
    \/ query_application_abort
    \/ HostMutate

Spec == Init /\ [][Next]_vars

\* The scheduling methods alone, over the wider choice of operation values.
NextSchedule ==
    \/ \E f \in Facades, operation \in RawOperations : schedule_raw_operation(f, operation)
    \/ \E f \in Facades, i \in DOMAIN RoundTripOperations :
          schedule_operation(f, RoundTripOperations[i])

SpecSchedule == Init /\ [][NextSchedule]_vars

(***************************************************************************)
(* The facade as the application sees it.  The fetch closures of the file  *)
(* (lines 69-130) call one base_wit primitive and convert its result: no   *)
(* application code runs while such a primitive is in flight, so a facade  *)
(* call is made only when no fetch is on top of the stack.  The host       *)
(* answers every primitive it was called with, or ends the execution.      *)
(* The calls are those of the facade the execution starts with: instances  *)
(* share no state, so a second one adds nothing to the completion of calls.*)
(***************************************************************************)
FetchInFlight == stack # <<>> /\ stack[Len(stack)].slot \in Slots

HostAnswersQuery ==
    \/ \E response_bytes \in ResponseBytes : query_application_return(response_bytes)
    \/ query_application_abort

NextLive ==
    \/ /\ ~FetchInFlight
       /\ \/ \E f \in Facades : application_parameters(f)
          \/ \E f \in Facades : application_id(f)
          \/ \E f \in Facades : chain_id(f)
          \/ \E f \in Facades : next_block_height(f)
          \/ \E f \in Facades : system_time(f)
          \/ \E f \in Facades : chain_balance(f)
          \/ \E f \in Facades : owner_balances(f)
          \/ \E f \in Facades : balance_owners(f)
          \/ \E f \in Facades, owner \in Owners : owner_balance(f, owner)
          \/ \E f \in Facades, request \in Requests : http_request(f, request)
          \/ \E f \in Facades, hash \in BlobHashes : read_data_blob(f, hash)
          \/ \E f \in Facades, hash \in BlobHashes : assert_data_blob_exists(f, hash)
          \/ \E f \in Facades, operation \in RawOperations :
                schedule_raw_operation(f, operation)
          \/ \E f \in Facades, i \in DOMAIN Operations :
                schedule_operation(f, Operations[i])
          \/ \E f \in Facades, application \in Applications :
                \E i \in DOMAIN AbiQueries(application.abi) :
                   query_application(f, application, AbiQueries(application.abi)[i])
    \/ fetch_return
    \/ HostAnswersQuery
    \/ HostMutate

\* a return of the host pops the stack or ends the execution
returnVars == <<stack, status>>

LiveSpec ==
    /\ Init
    /\ [][NextLive]_vars
    /\ WF_returnVars(fetch_return)
    /\ WF_returnVars(HostAnswersQuery)

(***************************************************************************)
(* Properties.                                                             *)
(***************************************************************************)
\* the host primitive behind each cacheable method
PrimitiveOf(slot) ==
    CASE slot = "application_parameters" -> "application_parameters"
      [] slot = "application_id" -> "get_application_id"
      [] slot = "chain_id" -> "get_chain_id"
      [] slot = "next_block_height" -> "get_block_height"
      [] slot = "timestamp" -> "read_system_timestamp"
      [] slot = "chain_balance" -> "read_chain_balance"
      [] slot = "owner_balances" -> "read_owner_balances"
      [] slot = "balance_owners" -> "read_balance_owners"

FirstValue(f, slot) == Unwrap(firstRet[f][slot]).value
FirstVersion(f, slot) == Unwrap(firstRet[f][slot]).version
Returned(f, m) == last.facade = f /\ last.method = m /\ last.outcome = "returned"

\* C1: for every cacheable method and facade, the host primitive behind it is
\* invoked at most once, exactly once as soon as the method has returned, and
\* every return of the method carries the value its first call returned.
C1_InvokedOnceSameValue ==
    \A f \in Facades, slot \in Slots :
        /\ invocations[f][PrimitiveOf(slot)] <= 1
        /\ ~IsNone(firstRet[f][slot]) => invocations[f][PrimitiveOf(slot)] = 1
        /\ Returned(f, slot) =>
              /\ ~IsNone(firstRet[f][slot])
              /\ ValueOf(last) = FirstValue(f, slot)

\* a later call of system_time was answered from the slot although the host's
\* clock has moved on since the first call
C1_Witness ==
    /\ Returned("f1", "timestamp")
    /\ last.cached
    /\ invocations["f1"]["read_system_timestamp"] = 1
    /\ hostVersion > FirstVersion("f1", "timestamp")
    /\ ValueOf(last) # system_time_fetch(hostVersion).value

LedgerSlots == {"owner_balances", "balance_owners", "chain_balance"}

\* C2: once owner_balances(), balance_owners() or chain_balance() has returned
\* on a facade, the slot keeps that first value whatever the host's ledger
\* becomes, and every later call on the facade returns it.
C2_SnapshotKept ==
    \A f \in Facades, slot \in LedgerSlots :
        ~IsNone(firstRet[f][slot]) =>
            /\ cells[f][slot].value = Some(FirstValue(f, slot))
            /\ FirstValue(f, slot) = Fetch(slot, FirstVersion(f, slot)).value
            /\ Returned(f, slot) => ValueOf(last) = FirstValue(f, slot)

\* owner_balances() answered again after the ledger changed: the list returned
\* is the one of the first call, not the host's current one
C2_Witness ==
    /\ Returned("f1", "owner_balances")
    /\ last.cached
    /\ FirstVersion("f1", "owner_balances") = 0
    /\ hostVersion > 0
    /\ ValueOf(last) = owner_balances_fetch(0).value
    /\ ValueOf(last) # owner_balances_fetch(hostVersion).value

OwnersOf(pairs) == [i \in 1..Len(pairs) |-> pairs[i][1]]
BothListed(f) ==
    ~IsNone(firstRet[f]["owner_balances"]) /\ ~IsNone(firstRet[f]["balance_owners"])

\* C3 as stated: on every facade, whatever the host did to its ledger between
\* the calls, the owners returned by balance_owners() are the owners of the
\* pairs returned by owner_balances(), in the same order.
C3_ParallelLists ==
    \A f \in Facades :
        BothListed(f) =>
            FirstValue(f, "balance_owners") = OwnersOf(FirstValue(f, "owner_balances"))

\* C3 as amended: each list is the host's list at that list's own first call,
\* and the two are parallel whenever the host ledger was the same at the two
\* first calls.
C3_ParallelWhenLedgerUnchanged ==
    \A f \in Facades :
        BothListed(f) =>
            /\ FirstValue(f, "owner_balances") =
                  HostLedger(FirstVersion(f, "owner_balances"))
            /\ FirstValue(f, "balance_owners") =
                  OwnersOf(HostLedger(FirstVersion(f, "balance_owners")))
            /\ HostLedger(FirstVersion(f, "owner_balances")) =
                  HostLedger(FirstVersion(f, "balance_owners"))
               => FirstValue(f, "balance_owners") =
                     OwnersOf(FirstValue(f, "owner_balances"))

\* both lists were first read from the same ledger, the ledger changed
\* afterwards, and balance_owners() was called again
C3_Witness ==
    /\ BothListed("f1")
    /\ FirstVersion("f1", "owner_balances") = FirstVersion("f1", "balance_owners")
    /\ hostVersion > FirstVersion("f1", "balance_owners")
    /\ HostLedger(hostVersion) # HostLedger(FirstVersion("f1", "balance_owners"))
    /\ Returned("f1", "balance_owners")
    /\ last.cached
    /\ Len(ValueOf(last)) = 2

C5_NestedChainIdFromSlot ==
    [][\A f \in Facades :
          (/\ Running
           /\ Under = "query_application"
           /\ stack[Len(stack)].facade = f
           /\ ~IsNone(firstRet[f]["application_parameters"])
           /\ ~IsNone(firstRet[f]["chain_id"])
           /\ last'.facade = f
           /\ last'.method = "chain_id")
          => (/\ status' = "running"
              /\ stack' = stack
              /\ invocations' = invocations
              /\ invocations[f]["get_chain_id"] = 1
              /\ last'.outcome = "returned"
              /\ last'.cached
              /\ last'.under = "query_application"
              /\ ValueOf(last') = FirstValue(f, "chain_id"))]_vars

\* the nested call has returned the cached chain id while the query is in flight
C5_Witness ==
    /\ status = "running"
    /\ Len(stack) = 1
    /\ stack[1].method = "query_application"
    /\ stack[1].facade = "f1"
    /\ ~IsNone(firstRet["f1"]["application_parameters"])
    /\ invocations["f1"]["get_chain_id"] = 1
    /\ invocations["f1"]["try_query_application"] = 1
    /\ Returned("f1", "chain_id")
    /\ last.cached
    /\ last.under = "query_application"
    /\ ValueOf(last) = FirstValue("f1", "chain_id")

\* C6: owner_balance is not memoized.  On every facade the host has served as
\* many read_owner_balance calls as owner_balance was called, and each call of
\* owner_balance issues one of them and returns the balance the host holds for
\* that owner at the time of the call, whatever the slots of the facade hold.
C6_OwnerBalanceNotMemoized ==
    /\ [](\A f \in Facades :
             invocations[f]["read_owner_balance"] = calls[f]["owner_balance"])
    /\ [][\A f \in Facades :
             (last'.facade = f /\ last'.method = "owner_balance")
             => (/\ calls'[f]["owner_balance"] = calls[f]["owner_balance"] + 1
                 /\ invocations'[f]["read_owner_balance"] =
                       invocations[f]["read_owner_balance"] + 1
                 /\ last'.outcome = "returned"
                 /\ ValueOf(last') =
                       FromWit(base_wit_read_owner_balance(
                                  hostVersion, IntoWit(ArgOf(last')))))]_vars

\* owner_balance was called twice after owner_balances() had been cached, and
\* the host served two reads
C6_Witness ==
    /\ ~IsNone(cells["f1"]["owner_balances"].value)
    /\ calls["f1"]["owner_balance"] = 2
    /\ invocations["f1"]["read_owner_balance"] = 2
    /\ Returned("f1", "owner_balance")

\* C7: http_request and read_data_blob are not cached.  The host has served as
\* many requests and blob reads as the methods were called, each call issues
\* one, and no slot of any facade changes in such a call.
C7_OracleCallsNotCached ==
    /\ [](\A f \in Facades :
             /\ invocations[f]["perform_http_request"] = calls[f]["http_request"]
             /\ invocations[f]["read_data_blob"] = calls[f]["read_data_blob"])
    /\ [][\A f \in Facades :
             /\ (last'.facade = f /\ last'.method = "http_request")
                => (/\ invocations'[f]["perform_http_request"] =
                          invocations[f]["perform_http_request"] + 1
                    /\ cells' = cells
                    /\ firstRet' = firstRet
                    /\ last'.outcome = "returned")
             /\ (last'.facade = f /\ last'.method = "read_data_blob")
                => (/\ invocations'[f]["read_data_blob"] =
                          invocations[f]["read_data_blob"] + 1
                    /\ cells' = cells
                    /\ firstRet' = firstRet)]_vars

\* the same request was made twice with a populated slot on the facade: two
\* host requests, and the slot still holds its value
C7_Witness ==
    /\ calls["f1"]["http_request"] = 2
    /\ invocations["f1"]["perform_http_request"] = 2
    /\ Returned("f1", "http_request")
    /\ \E slot \in Slots : ~IsNone(cells["f1"][slot].value)

\* the entries the host's queue must hold after the scheduling calls of a log:
\* a raw operation as it was given, a typed one in its BCS form
RECURSIVE Forwarded(_)
Forwarded(log) ==
    IF log = <<>> THEN <<>>
    ELSE LET e == log[Len(log)]
             before == Forwarded(SubSeq(log, 1, Len(log) - 1))
         IN IF KindOf(e) = "raw" THEN Append(before, PayloadOf(e))
            ELSE IF bcs_to_bytes(Untyped(PayloadOf(e))).ok
                 THEN Append(before, bcs_to_bytes(Untyped(PayloadOf(e))).value)
                 ELSE before

\* C8: the host's operation queue is the forwarded bytes of the scheduling
\* calls in call order; a step never removes or changes an entry, a scheduling
\* call that returns appends exactly one entry at the end, and for a raw
\* operation that entry is the bytes that were given.
C8_QueueInCallOrder ==
    /\ [](opQueue = Forwarded(schedLog))
    /\ [][/\ Len(opQueue') >= Len(opQueue)
          /\ SubSeq(opQueue', 1, Len(opQueue)) = opQueue
          /\ (last'.method \in {"schedule_raw_operation", "schedule_operation"}
              /\ last'.outcome = "returned")
             => Len(opQueue') = Len(opQueue) + 1
          /\ last'.method = "schedule_raw_operation"
             => opQueue'[Len(opQueue')] = ArgOf(last')]_vars

\* a typed, a raw and another typed operation were scheduled, in this order
C8_Witness ==
    /\ Len(opQueue) = 3
    /\ KindOf(schedLog[1]) = "typed"
    /\ KindOf(schedLog[2]) = "raw"
    /\ KindOf(schedLog[3]) = "typed"
    /\ opQueue[1] = <<44, 1>>
    /\ opQueue[2] = <<7, 7>>
    /\ opQueue[3] = <<2, 1, 2>>

\* C9: when schedule_operation(op) returns, the entry it appended to the host's
\* queue decodes, with BCS at the type of op, to op.
C9_BcsRoundTrip ==
    [][(last'.method = "schedule_operation" /\ last'.outcome = "returned")
       => LET op == Untyped(ArgOf(last'))
              decoded == bcs_from_bytes(op.t, opQueue'[Len(opQueue')])
          IN /\ Len(opQueue') = Len(opQueue) + 1
             /\ decoded.ok
             /\ decoded.value = op]_vars

\* an enum value whose variant index takes two ULEB128 bytes was forwarded
C9_Witness ==
    /\ Returned("f1", "schedule_operation")
    /\ Untyped(ArgOf(last)).t = "enum"
    /\ opQueue # <<>>
    /\ opQueue[Len(opQueue)] = <<200, 1, 9>>

\* C10: when the host hands the response bytes of a query back, the call
\* returns the value the bytes parse to at the target's declared response type
\* if they parse, and otherwise ends in the fatal condition of the failed
\* decoding without returning a value.
C10_ResponseDecodedOrFatal ==
    [][\A f \in Facades :
          (/\ Running
           /\ Under = "query_application"
           /\ stack[Len(stack)].facade = f
           /\ last'.facade = f
           /\ last'.method = "query_application"
           /\ nSteps' = nSteps
           /\ ~IsNone(last'.arg))
          => LET parsed == serde_json_from_slice(stack[Len(stack)].resp,
                                                 ArgOf(last'))
             IN IF parsed.ok
                THEN /\ status' = "running"
                     /\ last'.outcome = "returned"
                     /\ ValueOf(last') = Typed(parsed.value)
                     /\ stack' = SubSeq(stack, 1, Len(stack) - 1)
                ELSE /\ status' = "aborted"
                     /\ fatal' = "Failed to deserialize query response from application"
                     /\ last'.outcome = "aborted"
                     /\ IsNone(last'.value)]_vars

\* the target answered a query that expects a number with bytes that are not
\* one: the call ended in the fatal condition
C10_Witness ==
    /\ status = "aborted"
    /\ fatal = "Failed to deserialize query response from application"
    /\ last.method = "query_application"
    /\ last.outcome = "aborted"
    /\ stack # <<>>
    /\ stack[Len(stack)].resp = "u8"

\* C11: a call of assert_data_blob_exists asks the host once; when the blob is
\* in storage the call returns nothing and the execution goes on with every
\* slot as it was, and when the blob is absent the execution ends in a fatal
\* condition.
C11_AssertBlobSilentOrFatal ==
    [][\A f \in Facades :
          (last'.facade = f /\ last'.method = "assert_data_blob_exists")
          => /\ invocations'[f]["assert_data_blob_exists"] =
                   invocations[f]["assert_data_blob_exists"] + 1
             /\ cells' = cells
             /\ stack' = stack
             /\ IF ArgOf(last') \in StoredBlobs
                THEN /\ status' = "running"
                     /\ fatal' = fatal
                     /\ last'.outcome = "returned"
                     /\ ValueOf(last') = "()"
                ELSE /\ status' = "aborted"
                     /\ fatal' # ""
                     /\ last'.outcome = "aborted"
                     /\ IsNone(last'.value)]_vars

\* the assertion was made for a blob that is not in storage, after one for a
\* blob that is: the first returned, the second ended the execution
C11_Witness ==
    /\ status = "aborted"
    /\ last.method = "assert_data_blob_exists"
    /\ last.outcome = "aborted"
    /\ ArgOf(last) \notin StoredBlobs
    /\ calls["f1"]["assert_data_blob_exists"] = 2
    /\ invocations["f1"]["assert_data_blob_exists"] = 2

EmptyCell(cell) == IsNone(cell.value) /\ ~cell.locked

\* C12: the slots belong to one facade.  A facade that is constructed has every
\* slot empty whatever the other facades hold, a value in a slot was fetched by
\* a host call of the facade that owns the slot, a call on a facade whose slot
\* is empty invokes the host whatever the other facades cached, and no step
\* changes a slot of a facade other than the one it is made on.
C12_CachesPerInstance ==
    /\ [](\A f \in Facades, slot \in Slots :
             /\ f \notin constructed => EmptyCell(cells[f][slot])
             /\ ~IsNone(cells[f][slot].value) => invocations[f][PrimitiveOf(slot)] = 1)
    /\ [][\A f \in Facades :
             /\ (last'.facade = f /\ last'.method = "new")
                => /\ \A slot \in Slots : EmptyCell(cells'[f][slot])
                   /\ invocations' = invocations
             /\ last'.facade # f => cells'[f] = cells[f]
             /\ \A slot \in Slots :
                   (/\ last'.facade = f
                    /\ last'.method = slot
                    /\ EmptyCell(cells[f][slot]))
                   => /\ invocations'[f][PrimitiveOf(slot)] = 1
                      /\ last'.outcome = "suspended"]_vars

\* a second facade was constructed after the first had cached the chain id, and
\* its own chain_id() call was answered by a host call of its own
C12_Witness ==
    /\ constructed = {"f1", "f2"}
    /\ ~IsNone(cells["f1"]["chain_id"].value)
    /\ Returned("f2", "chain_id")
    /\ ~last.cached
    /\ invocations["f1"]["get_chain_id"] = 1
    /\ invocations["f2"]["get_chain_id"] = 1
    /\ \A slot \in Slots \ {"chain_id"} : EmptyCell(cells["f2"][slot])

\* C13: a slot is empty when its facade is constructed, and a slot that holds
\* a value holds the same value after every step: it is filled at most once,
\* never emptied and never given another value.
C13_CellFilledOnce ==
    /\ [](\A f \in Facades, slot \in Slots :
             f \notin constructed => IsNone(cells[f][slot].value))
    /\ [][\A f \in Facades, slot \in Slots :
             /\ (last'.facade = f /\ last'.method = "new")
                => IsNone(cells'[f][slot].value)
             /\ ~IsNone(cells[f][slot].value)
                => cells'[f][slot].value = cells[f][slot].value]_vars

\* the chain balance slot still holds the balance of the first call after the
\* host's balance changed twice and the method was called again
C13_Witness ==
    /\ cells["f1"]["chain_balance"].value = Some(chain_balance_fetch(0).value)
    /\ hostVersion = 2
    /\ chain_balance_fetch(2).value # chain_balance_fetch(0).value
    /\ Returned("f1", "chain_balance")
    /\ last.cached
    /\ invocations["f1"]["read_chain_balance"] = 1

\* C14: a schedule_operation call whose value has no BCS encoding ends the
\* execution in the fatal condition of the failed serialization; the host's
\* schedule primitive is not called and the operation queue is as it was before
\* the call, and it stays so: nothing runs after the fatal condition.
C14_EncodingFailureIsFatal ==
    /\ [](fatal = "Failed to serialize application operation"
          => /\ status = "aborted"
             /\ last.method = "schedule_operation"
             /\ last.outcome = "aborted"
             /\ opQueue = Forwarded(schedLog))
    /\ [][\A f \in Facades :
             (/\ last'.facade = f
              /\ last'.method = "schedule_operation"
              /\ ~bcs_to_bytes(Untyped(ArgOf(last'))).ok)
             => /\ status' = "aborted"
                /\ fatal' = "Failed to serialize application operation"
                /\ last'.outcome = "aborted"
                /\ IsNone(last'.value)
                /\ opQueue' = opQueue
                /\ invocations' = invocations]_vars

\* a value without BCS form was scheduled after two operations were queued:
\* the execution is over and the queue holds the two entries
C14_Witness ==
    /\ status = "aborted"
    /\ fatal = "Failed to serialize application operation"
    /\ Untyped(ArgOf(last)).t = "f32"
    /\ Len(opQueue) = 2
    /\ Len(schedLog) = 3
    /\ invocations["f1"]["schedule_operation"] = 2

\* the host queries issued by a set of facades
RECURSIVE QueriesIssued(_)
QueriesIssued(fs) ==
    IF fs = {} THEN 0
    ELSE LET f == CHOOSE x \in fs : TRUE IN
         invocations[f]["try_query_application"] + QueriesIssued(fs \ {f})

\* C15: the host has been handed as many queries as the facades issued, and
\* each query_application call whose query has a JSON encoding adds exactly one
\* dispatch at the end, made of the target identifier without its interface
\* tag and of the encoded query; a call whose query has no encoding adds none.
\* A repeated call is dispatched again.
C15_OneDispatchPerQuery ==
    /\ [](Len(dispatched) = QueriesIssued(Facades))
    /\ [][\A f \in Facades :
             (/\ last'.facade = f
              /\ last'.method = "query_application"
              /\ nSteps' = nSteps + 1)
             => LET call == [application |-> ArgOf(last')[1],
                             query |-> Untyped(ArgOf(last')[2])]
                    encoded == serde_json_to_vec(call.query)
                    sent == dispatched'[Len(dispatched')]
                IN IF encoded.ok
                   THEN /\ Len(dispatched') = Len(dispatched) + 1
                        /\ SubSeq(dispatched', 1, Len(dispatched)) = dispatched
                        /\ DOMAIN sent.application = {"application_description_hash"}
                        /\ sent.application.application_description_hash =
                              call.application.application_description_hash
                        /\ sent.query = encoded.value
                        /\ invocations'[f]["try_query_application"] =
                              invocations[f]["try_query_application"] + 1
                        /\ last'.outcome = "suspended"
                   ELSE /\ dispatched' = dispatched
                        /\ invocations' = invocations
                        /\ status' = "aborted"]_vars

\* the same query was sent to the same application twice, the first answered
\* before the second: the host was handed two equal dispatches
C15_Witness ==
    /\ Len(dispatched) = 2
    /\ dispatched[1] = dispatched[2]
    /\ invocations["f1"]["try_query_application"] = 2
    /\ calls["f1"]["query_application"] = 2
    /\ Len(stack) = 1

\* the frames two stacks have in common at the bottom
Below(st, n) == SubSeq(st, 1, n)

\* C16: the calls in flight form a stack.  A step pushes one call on top, pops
\* the call on top or leaves the stack alone, and never touches a call below
\* the top; a query_application that returns is the call on top, so every call
\* issued after it has completed, and it returns to the call right below it.
C16_StrictNesting ==
    [][/\ Len(stack') \in {Len(stack) - 1, Len(stack), Len(stack) + 1}
       /\ Len(stack') <= Len(stack) => stack' = Below(stack, Len(stack'))
       /\ Len(stack') > Len(stack) => stack = Below(stack', Len(stack))
       /\ (/\ last'.method = "query_application"
           /\ last'.outcome = "returned")
          => /\ stack # <<>>
             /\ stack[Len(stack)].method = "query_application"
             /\ stack[Len(stack)].facade = last'.facade
             /\ stack' = Below(stack, Len(stack) - 1)
             /\ last'.under = UnderTop]_vars

\* a query issued by the handler of another query has returned while the outer
\* query is still in flight
C16_Witness ==
    /\ Len(stack) = 1
    /\ stack[1].method = "query_application"
    /\ Len(dispatched) = 2
    /\ last.method = "query_application"
    /\ last.outcome = "returned"
    /\ last.under = "query_application"

\* C17: a fatal condition ends the execution.  As soon as one is raised the
\* execution is aborted, the operation that raised it is the last thing that
\* happened and it returned no value, and no step is taken afterwards: no
\* retry, no further host call.
C17_FatalIsFinal ==
    /\ [](fatal # "" => status = "aborted")
    /\ [](status = "aborted"
          => /\ fatal # ""
             /\ last.outcome = "aborted"
             /\ IsNone(last.value))
    /\ [][status = "running"]_vars

\* a blob read failed inside the handler of a query after a fact was cached:
\* the execution is over with the query still in flight
C17_Witness ==
    /\ status = "aborted"
    /\ fatal = "host: blob not found"
    /\ last.method = "read_data_blob"
    /\ last.under = "query_application"
    /\ Len(stack) = 1
    /\ \E slot \in Slots : ~IsNone(cells["f1"][slot].value)

\* the guard of a slot is held exactly while a fetch for the slot is in flight
GuardHeldOnlyInFlight ==
    \A f \in Facades, slot \in Slots :
        cells[f][slot].locked
        <=> \E i \in 1..Len(stack) : stack[i].facade = f /\ stack[i].slot = slot

\* C18: with a host that answers every primitive call or ends the execution,
\* every call in flight eventually returns or the execution ends in a fatal
\* condition; the guard of a slot is held only while the fetch for the slot is
\* in flight, so it is released when the method returns, and no call ever
\* blocks.
C18_CallsComplete ==
    /\ []GuardHeldOnlyInFlight
    /\ [](status # "blocked")
    /\ \A d \in 1..MaxSteps :
          (Len(stack) = d) ~> (Len(stack) < d \/ status = "aborted")

\* a cacheable method was called again after its first call returned: the
\* guard was free and the call was answered
C18_Witness ==
    /\ status = "running"
    /\ stack = <<>>
    /\ Returned("f1", "next_block_height")
    /\ last.cached
    /\ ~cells["f1"]["next_block_height"].locked
    /\ invocations["f1"]["get_block_height"] = 1

\* C19: population is lazy and independent for each fact.  A step invokes the
\* host primitive of a cacheable fact only if it is a call of that fact's own
\* method on that facade, found the cell empty and free, and started the fetch;
\* the constructor invokes no host primitive and yields empty cells; and a step
\* changes a cell only if it belongs to the method of that cell on that facade.
C19_LazyIndependentPopulation ==
    [][/\ \A f \in Facades, slot \in Slots :
            invocations'[f][PrimitiveOf(slot)] # invocations[f][PrimitiveOf(slot)]
            => /\ last'.facade = f
               /\ last'.method = slot
               /\ last'.outcome = "suspended"
               /\ EmptyCell(cells[f][slot])
               /\ invocations'[f][PrimitiveOf(slot)] =
                      invocations[f][PrimitiveOf(slot)] + 1
       /\ last'.method = "new"
            => /\ invocations' = invocations
               /\ \A slot \in Slots : EmptyCell(cells'[last'.facade][slot])
       /\ \A f \in Facades, slot \in Slots :
            cells'[f][slot] # cells[f][slot]
            => last'.facade = f /\ last'.method = slot]_vars

\* a second facade was constructed and one fact was read through it: that
\* fact's primitive ran once for it, every other cell of both facades is
\* empty and no other primitive of a cacheable fact was invoked
C19_Witness ==
    /\ constructed = Facades
    /\ Returned("f2", "chain_balance")
    /\ ~last.cached
    /\ ~IsNone(cells["f2"]["chain_balance"].value)
    /\ \A f \in Facades, slot \in Slots :
          <<f, slot>> # <<"f2", "chain_balance">>
          => /\ EmptyCell(cells[f][slot])
             /\ invocations[f][PrimitiveOf(slot)] = 0
    /\ invocations["f2"]["read_chain_balance"] = 1

\* the application parameters the host holds at a version, decoded
DecodedParameters(ver) ==
    serde_json_from_slice(ParametersType, base_wit_application_parameters(ver))

\* C20: a population attempt that fails caches nothing.  A step that ends the
\* execution leaves every cell as it was; a step gives a cell a value only if
\* it is the return of the fetch of that cell, and the value is the one the
\* call returns; application parameters are returned from a fetch only if the
\* bytes of the host decode, as the decoded value; and once the execution has
\* ended on undecodable parameters the cell the fetch was for holds no value
\* and no call has returned a value for it.
C20_FailedFetchCachesNothing ==
    /\ [][/\ status' = "aborted" => cells' = cells
          /\ \A f \in Facades, slot \in Slots :
                cells'[f][slot].value # cells[f][slot].value
                => /\ last'.facade = f
                   /\ last'.method = slot
                   /\ last'.outcome = "returned"
                   /\ ~last'.cached
                   /\ status' = "running"
                   /\ cells'[f][slot].value = Some(ValueOf(last'))
          /\ (/\ last'.method = "application_parameters"
              /\ last'.outcome = "returned"
              /\ ~last'.cached)
             => /\ DecodedParameters(hostVersion).ok
                /\ ValueOf(last') = DecodedParameters(hostVersion).value]_vars
    /\ [](fatal = "Application parameters must be deserializable"
          => /\ status = "aborted"
             /\ stack # <<>>
             /\ LET fr == stack[Len(stack)] IN
                /\ fr.slot = "application_parameters"
                /\ IsNone(cells[fr.facade]["application_parameters"].value)
                /\ IsNone(firstRet[fr.facade]["application_parameters"]))

\* the host changed the parameters to bytes that do not decode before they
\* were first read: the fetch ended the execution and the cell is still empty
C20_Witness ==
    /\ status = "aborted"
    /\ fatal = "Application parameters must be deserializable"
    /\ last.method = "application_parameters"
    /\ last.facade = "f1"
    /\ ~DecodedParameters(hostVersion).ok
    /\ invocations["f1"]["application_parameters"] = 1
    /\ IsNone(cells["f1"]["application_parameters"].value)

====
